---- MODULE Spec2Model ----
(***************************************************************************)
(* The Resident Directory API: register / login / refresh / logout over    *)
(* the users and refresh_tokens tables, the Bearer check and the admin     *)
(* gate of the protected routes, the resident routes (list, get, create,   *)
(* update, delete) over the residents table, and the uploads stub.         *)
(*                                                                         *)
(* Time is counted in clock ticks, TicksPerSecond of them to a second, so  *)
(* that datetime values (sub-second) and the integer "iat"/"exp" claims    *)
(* (whole seconds, int(timestamp)) are different things.  A JWT string is  *)
(* the HS256 encoding of its claims under a key: encoding is deterministic *)
(* and injective, so a token string is modelled as the record of the       *)
(* claims it signs together with the signing key.  The created_at columns  *)
(* of users and refresh_tokens are written once and never read by any      *)
(* handler; they are left out.                                             *)
(* The clock readings one handler makes between its checks and its commit  *)
(* fall on one tick.  Request bodies carry well-formed email addresses.    *)
(***************************************************************************)
EXTENDS Integers, FiniteSets, Sequences, TLC

\* ---------------------------------------------------------------- bounds
TicksPerSecond == 2
MaxAdvances == 1
MaxIssued == 2

\* ------------------------------------------------------- program constants
access_token_expires_minutes == 30
refresh_token_expires_days == 30
jwt_issuer == "resident-directory"
jwt_audience == "resident-directory-frontend"
jwt_secret_key == "secret"
MinPasswordLength == 8
MaxPasswordLength == 128

AccessTTL == access_token_expires_minutes * 60
RefreshTTL == refresh_token_expires_days * 86400

\* ------------------------------------------------------------------ inputs
\* One address registers; the other stays unknown to the users table.
RegisterEmails == {"a@x.com"}
Emails == RegisterEmails \cup {"b@x.com"}
LongPassword ==
  "0123456789012345678901234567890123456789012345678901234567890123456789012345678901234567890123456789012345678901234567890123456789"
\* Passwords sent to register: 7, 8 and 129 characters long.
RegisterPasswords == {"1234567", "12345678", LongPassword}
\* Passwords sent to login: the one users register with, and another.
LoginPasswords == {"12345678", "longpass1"}
Procs == {"p1", "p2"}

NullToken ==
  [iss |-> "", aud |-> "", sub |-> 0, role |-> "", type |-> "null",
   iat |-> 0, exp |-> 0, key |-> ""]
\* A refresh-shaped token signed with a key that is not the server's.
ForgedToken ==
  [iss |-> jwt_issuer, aud |-> jwt_audience, sub |-> 1, role |-> "",
   type |-> "refresh", iat |-> 0, exp |-> RefreshTTL, key |-> "attacker"]
NullUser == [id |-> 0, email |-> "", role |-> ""]
NullRow == [user_id |-> 0, token |-> NullToken, expires_at |-> 0]

VARIABLES
  users,           \* table users: rows [id, email, password_hash, role]
  refresh_tokens,  \* table refresh_tokens: rows [user_id, token, expires_at]
  now,             \* the wall clock, in ticks
  advances,        \* how many times the clock has been advanced
  resp,            \* the response to the last request (op "none" after a clock step)
  issued,          \* history: every token string handed to a client
  accepted,        \* history: refresh token strings Refresh has accepted once or more
  reaccepted,      \* history: refresh token strings Refresh has accepted twice or more
  removed,         \* history: token strings whose row was deleted
  sess,            \* the Refresh requests in flight, per worker
  residents,       \* table residents: one row per directory entry
  body,            \* the resident-route part of the last request and response
  regs             \* the Register requests in flight, per worker

vars == <<users, refresh_tokens, now, advances, resp, issued,
          accepted, reaccepted, removed, sess, residents, body, regs>>

\* ------------------------------------------------------------------- time
\* int(dt.timestamp()): the whole second a tick falls in.
Sec(t) == t \div TicksPerSecond
\* dt + timedelta(seconds = s)
PlusSeconds(t, s) == t + s * TicksPerSecond

\* ---------------------------------------------------------------- security
hash_password(password) == <<"bcrypt", password>>

verify_password(plain_password, password_hash) ==
  password_hash = <<"bcrypt", plain_password>>

\* create_access_token adding the configured minutes as if they were seconds.
create_access_token_Minutes(subject, role, t) ==
  [token |-> [iss |-> jwt_issuer, aud |-> jwt_audience, sub |-> subject,
              role |-> role, type |-> "access", iat |-> Sec(t),
              exp |-> Sec(PlusSeconds(t, access_token_expires_minutes)),
              key |-> jwt_secret_key],
   expires_in |-> AccessTTL]

create_access_token(subject, role, t) ==
  [token |-> [iss |-> jwt_issuer, aud |-> jwt_audience, sub |-> subject,
              role |-> role, type |-> "access", iat |-> Sec(t),
              exp |-> Sec(PlusSeconds(t, AccessTTL)), key |-> jwt_secret_key],
   expires_in |-> AccessTTL]

create_refresh_token(subject, t) ==
  [token |-> [iss |-> jwt_issuer, aud |-> jwt_audience, sub |-> subject,
              role |-> "", type |-> "refresh", iat |-> Sec(t),
              exp |-> Sec(PlusSeconds(t, RefreshTTL)), key |-> jwt_secret_key],
   expires_at |-> PlusSeconds(t, RefreshTTL)]

\* jwt.decode: signature, issuer, audience and expiry; a token whose exp is
\* at or before the current time is expired.
decode_token(token, t) ==
  /\ token.key = jwt_secret_key
  /\ token.iss = jwt_issuer
  /\ token.aud = jwt_audience
  /\ ~(token.exp * TicksPerSecond <= t)

\* ---------------------------------------------------------------- responses
Response(op, status, detail, access, refresh, user, email, password, token) ==
  [op |-> op, status |-> status, detail |-> detail,
   access_token |-> access, refresh_token |-> refresh, user |-> user,
   email |-> email, password |-> password, token |-> token]

NoResponse ==
  Response("none", 0, "", NullToken, NullToken, NullUser, "", "", NullToken)

_to_user_public(user) == [id |-> user.id, email |-> user.email, role |-> user.role]

UserByEmail(email) == {u \in users : u.email = email}
UserById(id) == {u \in users : u.id = id}
RowsByToken(token) == {r \in refresh_tokens : r.token = token}
SamePK(r1, r2) == r1.user_id = r2.user_id /\ r1.token = r2.token

\* ------------------------------------------------------------ text values
\* A text is the sequence of its characters.  A nullable value is None or
\* Some(v).
None == <<>>
Some(v) == <<v>>
\* The characters the texts of this model are made of, in code point order.
Alphabet ==
  <<" ", "%", "A", "B", "S", "_", "a", "b", "e", "h", "i", "l", "m", "o", "s", "t">>

NullResident ==
  [id |-> 0, first_name |-> None, last_name |-> None, address |-> None,
   city |-> None, state |-> None, zip |-> None, phone |-> None, email |-> None,
   photo_url |-> None, photo_public_id |-> None, notes |-> None,
   created_at |-> 0, updated_at |-> 0]

\* What a resident route was asked (the id of its path, the query of a list)
\* and what it returned (a resident; a page of residents with the total).
NoBody ==
  [rid |-> 0, q |-> None, page |-> 0, page_size |-> 0, sort_by |-> "",
   sort_dir |-> "", resident |-> NullResident, items |-> <<>>, total |-> 0]

NoRegistration == [pc |-> "idle", email |-> "", password |-> "", raced |-> FALSE,
                   status |-> 0]

Init ==
  /\ users = {}
  /\ refresh_tokens = {}
  /\ now = 0
  /\ advances = 0
  /\ resp = NoResponse
  /\ issued = {}
  /\ accepted = {}
  /\ reaccepted = {}
  /\ removed = {}
  /\ sess = [p \in Procs |-> [pc |-> "idle", token |-> NullToken, rt |-> NullRow,
                              raced |-> FALSE, status |-> 0]]
  /\ residents = {}
  /\ body = NoBody
  /\ regs = [p \in Procs |-> NoRegistration]

\* ------------------------------------------------------------------ clock
\* The clock moves by one tick, or straight to the neighbourhood of a token's
\* expiry: one second short of the access TTL, one second past it, or the
\* refresh TTL.
Jumps ==
  {1, PlusSeconds(0, AccessTTL - 1), PlusSeconds(0, AccessTTL + 1),
   PlusSeconds(0, RefreshTTL)}

Tick(d) ==
  /\ advances < MaxAdvances
  /\ now' = now + d
  /\ advances' = advances + 1
  /\ resp' = NoResponse
  /\ UNCHANGED <<users, refresh_tokens, issued, accepted, reaccepted,
                 removed, sess>>
  /\ body' = NoBody
  /\ UNCHANGED <<residents, regs>>

\* --------------------------------------------------------------- register
\* RegisterRequest: password: str = Field(..., min_length=8, max_length=128).
RegisterRequest(password) ==
  /\ Len(password) >= MinPasswordLength
  /\ Len(password) <= MaxPasswordLength

\* uuid.uuid4(): an identifier no row has yet.
NewUserId == Cardinality(users) + 1

\* create_user giving the new row the admin role.
create_user_Admin(email, password) ==
  LET user == [id |-> NewUserId, email |-> email,
               password_hash |-> hash_password(password), role |-> "admin"]
  IN /\ users' = users \cup {user}
     /\ resp' = Response("register", 201, "", NullToken, NullToken,
                         _to_user_public(user), email, password, NullToken)

\* db.add(user); db.commit(): the new row, answered 201 with its public view.
create_user(email, password) ==
  LET user == [id |-> NewUserId, email |-> email,
               password_hash |-> hash_password(password), role |-> "user"]
  IN /\ users' = users \cup {user}
     /\ resp' = Response("register", 201, "", NullToken, NullToken,
                         _to_user_public(user), email, password, NullToken)

\* register_user without the lookup of an existing row.
register_user_NoLookup(email, password) ==
  IF Len(password) < 8 THEN
    /\ resp' = Response("register", 400, "Password must be at least 8 characters",
                        NullToken, NullToken, NullUser, email, password, NullToken)
    /\ UNCHANGED users
  ELSE create_user(email, password)

\* The handler body; it runs only on a body RegisterRequest accepts.
register_user(email, password) ==
  IF Len(password) < 8 THEN
    /\ resp' = Response("register", 400, "Password must be at least 8 characters",
                        NullToken, NullToken, NullUser, email, password, NullToken)
    /\ UNCHANGED users
  ELSE IF UserByEmail(email) # {} THEN
    /\ resp' = Response("register", 409, "Email already registered", NullToken,
                        NullToken, NullUser, email, password, NullToken)
    /\ UNCHANGED users
  ELSE create_user(email, password)

\* POST /auth/register: the request body is validated against RegisterRequest
\* first; the application installs no handler for the validation error, so a
\* body that fails is answered 422 and the handler does not run.
Register(email, password) ==
  /\ IF RegisterRequest(password)
       THEN register_user(email, password)
       ELSE /\ resp' = Response("register", 422, "validation error", NullToken,
                                NullToken, NullUser, email, password, NullToken)
            /\ UNCHANGED users
  /\ UNCHANGED <<refresh_tokens, now, advances, issued, accepted,
                 reaccepted, removed, sess>>
  /\ body' = NoBody
  /\ UNCHANGED <<residents, regs>>

\* ----------------------------------------------------------- the database
\* Token strings whose row is in the table before and in no row after.
RemovedBy(before, after) == {r.token : r \in before} \ {r.token : r \in after}

\* db.add(row); db.commit(): INSERT of a row whose primary key
\* (user_id, token) is taken raises IntegrityError and nothing is written.
InsertRow(store, row) ==
  IF \E r \in store : SamePK(r, row)
    THEN [ok |-> FALSE, store |-> store]
    ELSE [ok |-> TRUE, store |-> store \cup {row}]

\* db.delete(rt); db.commit(): DELETE by primary key; a DELETE that matches no
\* row is a warning, not an error.
DeleteRow(store, rt) == {r \in store : ~SamePK(r, rt)}

\* db.delete(rt); db.add(row); db.commit() in one session.  The unit of work
\* writes inserts before deletes.  When the new row has the primary key of the
\* deleted one, the pair becomes an UPDATE of that row, and an UPDATE that
\* matches no row raises StaleDataError.  (Two requests never read the very
\* same datetime, the clock being finer than a tick, so the UPDATE always has
\* a column to set.)
RotateRows(store, rt, row) ==
  IF SamePK(rt, row) THEN
    IF \E r \in store : SamePK(r, row)
      THEN [ok |-> TRUE, store |-> {r \in store : ~SamePK(r, row)} \cup {row}]
      ELSE [ok |-> FALSE, store |-> store]
  ELSE
    LET ins == InsertRow(store, row)
    IN IF ins.ok THEN [ok |-> TRUE, store |-> DeleteRow(ins.store, rt)]
                 ELSE [ok |-> FALSE, store |-> store]

\* ------------------------------------------------------------------ login
\* The model stops issuing once MaxIssued distinct refresh token strings exist.
WithinBound(tokens) ==
  Cardinality({t \in tokens : t.type = "refresh"}) <= MaxIssued

\* login past the credential check: both tokens, and the refresh token's row.
login_issue(user, t) ==
  LET at == create_access_token(user.id, user.role, t)
      rf == create_refresh_token(user.id, t)
      ins == InsertRow(refresh_tokens,
                       [user_id |-> user.id, token |-> rf.token,
                        expires_at |-> rf.expires_at])
  IN IF ins.ok
       THEN [status |-> 200, detail |-> "", store |-> ins.store,
             access |-> at.token, refresh |-> rf.token,
             user |-> _to_user_public(user)]
       ELSE [status |-> 500, detail |-> "Internal Server Error",
             store |-> refresh_tokens, access |-> NullToken,
             refresh |-> NullToken, user |-> NullUser]

\* login telling an unknown email from a wrong password.
login_DistinctErrors(email, password, t) ==
  LET found == UserByEmail(email) IN
  IF found = {} THEN
    [status |-> 401, detail |-> "User not found", store |-> refresh_tokens,
     access |-> NullToken, refresh |-> NullToken, user |-> NullUser]
  ELSE IF \E u \in found : ~verify_password(password, u.password_hash) THEN
    [status |-> 401, detail |-> "Invalid email or password", store |-> refresh_tokens,
     access |-> NullToken, refresh |-> NullToken, user |-> NullUser]
  ELSE login_issue(CHOOSE u \in found : TRUE, t)

\* The outcome of login on the current tables at time t.
login(email, password, t) ==
  LET found == UserByEmail(email) IN
  IF found = {} \/ (\E u \in found : ~verify_password(password, u.password_hash)) THEN
    [status |-> 401, detail |-> "Invalid email or password", store |-> refresh_tokens,
     access |-> NullToken, refresh |-> NullToken, user |-> NullUser]
  ELSE login_issue(CHOOSE u \in found : TRUE, t)

Login(email, password) ==
  /\ LET out == login(email, password, now) IN
       /\ refresh_tokens' = out.store
       /\ resp' = Response("login", out.status, out.detail, out.access, out.refresh,
                           out.user, email, password, NullToken)
       /\ issued' = IF out.status = 200 THEN issued \cup {out.access, out.refresh}
                                         ELSE issued
       /\ WithinBound(issued')
  /\ UNCHANGED <<users, now, advances, accepted, reaccepted, removed, sess>>
  /\ body' = NoBody
  /\ UNCHANGED <<residents, regs>>

\* ---------------------------------------------------------------- refresh
Failure(status, detail, store) ==
  [status |-> status, detail |-> detail, store |-> store,
   access |-> NullToken, refresh |-> NullToken, user |-> NullUser]

\* refresh past the expiry check on the row: the token checks, the rotation.
refresh_unexpired(store, rt, token, t) ==
  IF ~decode_token(token, t) THEN
    Failure(401, "Invalid refresh token", store)
  ELSE IF token.type # "refresh" THEN
    Failure(401, "Invalid token type", store)
  ELSE IF token.sub = 0 THEN
    Failure(401, "Invalid token subject", store)
  ELSE IF UserById(token.sub) = {} THEN
    Failure(401, "User not found", store)
  ELSE
    LET user == CHOOSE u \in UserById(token.sub) : TRUE
        at == create_access_token(user.id, user.role, t)
        rf == create_refresh_token(user.id, t)
        rot == RotateRows(store, rt,
                          [user_id |-> user.id, token |-> rf.token,
                           expires_at |-> rf.expires_at])
    IN IF rot.ok
         THEN [status |-> 200, detail |-> "", store |-> rot.store,
               access |-> at.token, refresh |-> rf.token,
               user |-> _to_user_public(user)]
         ELSE Failure(500, "Internal Server Error", store)

\* refresh_found refusing an expired row without deleting it.
refresh_found_KeepExpired(store, rt, token, t) ==
  IF rt.expires_at <= t THEN
    Failure(401, "Refresh token expired", store)
  ELSE refresh_unexpired(store, rt, token, t)

\* refresh after the row lookup found rt, run at time t against the table
\* `store`: an expired row is deleted and the call refused; otherwise the
\* token checks and the rotation.
refresh_found(store, rt, token, t) ==
  IF rt.expires_at <= t THEN
    Failure(401, "Refresh token expired", DeleteRow(store, rt))
  ELSE refresh_unexpired(store, rt, token, t)

\* refresh trusting the token alone, without looking its row up.
refresh_NoLookup(token, t) ==
  refresh_found(refresh_tokens,
                [user_id |-> token.sub, token |-> token,
                 expires_at |-> token.exp * TicksPerSecond + 1],
                token, t)

\* refresh as one request served alone: lookup, checks and commit at time t.
refresh(token, t) ==
  LET rows == RowsByToken(token) IN
  IF rows = {} THEN Failure(401, "Invalid refresh token", refresh_tokens)
  ELSE IF Cardinality(rows) > 1 THEN
    Failure(500, "Internal Server Error", refresh_tokens)
  ELSE refresh_found(refresh_tokens, CHOOSE r \in rows : TRUE, token, t)

\* What a client can send as a token: one it was given, a forged one, or none.
ClientTokens == issued \cup {ForgedToken}

\* The bookkeeping of a Refresh response `out` to the request carrying token.
Settle(op, token, out) ==
  /\ refresh_tokens' = out.store
  /\ resp' = Response(op, out.status, out.detail, out.access, out.refresh,
                      out.user, "", "", token)
  /\ issued' = IF out.status = 200 THEN issued \cup {out.access, out.refresh}
                                   ELSE issued
  /\ WithinBound(issued')
  /\ accepted' = IF out.status = 200 THEN accepted \cup {token} ELSE accepted
  /\ reaccepted' = IF out.status = 200 /\ token \in accepted
                     THEN reaccepted \cup {token} ELSE reaccepted
  /\ removed' = removed \cup RemovedBy(refresh_tokens, out.store)

Refresh(token) ==
  /\ Settle("refresh", token, refresh(token, now))
  /\ UNCHANGED <<users, now, advances, sess>>
  /\ body' = NoBody
  /\ UNCHANGED <<residents, regs>>

\* ----------------------------------------------------------------- logout
\* logout revoking every refresh token of the token's user.
logout_AllOfUser(store, token) ==
  IF token # NullToken
    THEN {r \in store : r.user_id # token.sub}
    ELSE store

\* The table after logout; the token is NullToken when the body omits it.
logout(store, token) ==
  IF token # NullToken
    THEN IF \E r \in store : r.token = token
           THEN {r \in store : r.token # token}
           ELSE store
    ELSE store

Logout(token) ==
  /\ refresh_tokens' = logout(refresh_tokens, token)
  /\ resp' = Response("logout", 204, "", NullToken, NullToken, NullUser, "", "",
                      token)
  /\ removed' = removed \cup RemovedBy(refresh_tokens, refresh_tokens')
  /\ UNCHANGED <<users, now, advances, issued, accepted, reaccepted, sess>>
  /\ body' = NoBody
  /\ UNCHANGED <<residents, regs>>

\* ------------------------------------------------------- the Bearer check
\* get_current_user accepting a token of any type.
get_current_user_AnyType(credentials, t) ==
  IF credentials = NullToken THEN
    [status |-> 401, detail |-> "Not authenticated", user |-> NullUser]
  ELSE IF ~decode_token(credentials, t) THEN
    [status |-> 401, detail |-> "Invalid token", user |-> NullUser]
  ELSE IF credentials.sub = 0 THEN
    [status |-> 401, detail |-> "Invalid token subject", user |-> NullUser]
  ELSE IF UserById(credentials.sub) = {} THEN
    [status |-> 401, detail |-> "User not found", user |-> NullUser]
  ELSE
    [status |-> 200, detail |-> "",
     user |-> _to_user_public(CHOOSE u \in UserById(credentials.sub) : TRUE)]

\* get_current_user on the credentials of the Authorization header
\* (NullToken: no header) at time t.
get_current_user(credentials, t) ==
  IF credentials = NullToken THEN
    [status |-> 401, detail |-> "Not authenticated", user |-> NullUser]
  ELSE IF ~decode_token(credentials, t) THEN
    [status |-> 401, detail |-> "Invalid token", user |-> NullUser]
  ELSE IF credentials.type # "access" THEN
    [status |-> 401, detail |-> "Invalid token type", user |-> NullUser]
  ELSE IF credentials.sub = 0 THEN
    [status |-> 401, detail |-> "Invalid token subject", user |-> NullUser]
  ELSE IF UserById(credentials.sub) = {} THEN
    [status |-> 401, detail |-> "User not found", user |-> NullUser]
  ELSE
    [status |-> 200, detail |-> "",
     user |-> _to_user_public(CHOOSE u \in UserById(credentials.sub) : TRUE)]

\* A request to a protected route, as far as its dependency on the caller.
Authenticate(credentials) ==
  /\ LET out == get_current_user(credentials, now) IN
       resp' = Response("bearer", out.status, out.detail, NullToken, NullToken,
                        out.user, "", "", credentials)
  /\ UNCHANGED <<users, refresh_tokens, now, advances, issued, accepted,
                 reaccepted, removed, sess>>
  /\ body' = NoBody
  /\ UNCHANGED <<residents, regs>>

\* ------------------------------------------------------------ the admin gate
\* require_admin without the role check.
require_admin_AnyRole(credentials, t) == get_current_user(credentials, t)

\* require_admin over get_current_user: the caller's row, or 401, or 403 for
\* a caller whose role is not admin.
require_admin(credentials, t) ==
  LET current == get_current_user(credentials, t) IN
  IF current.status # 200 THEN current
  ELSE IF current.user.role # "admin" THEN
    [status |-> 403, detail |-> "Admin privileges required", user |-> NullUser]
  ELSE current

\* -------------------------------------------------------------- residents
\* The response to a request that carries credentials and returns no token.
Reply(op, status, detail, credentials) ==
  Response(op, status, detail, NullToken, NullToken, NullUser, "", "",
           credentials)

\* max_length of each field of ResidentBase.
FieldMax ==
  [first_name |-> 200, last_name |-> 200, address |-> 500, city |-> 200,
   state |-> 50, zip |-> 20, phone |-> 50, email |-> 320, photo_url |-> 2000,
   photo_public_id |-> 500, notes |-> 5000]

\* The constraints on the fields a body carries: max_length, and min_length 1
\* for the two names.
FieldsValid(payload) ==
  \A f \in DOMAIN payload :
    \/ payload[f] = None
    \/ /\ Len(payload[f][1]) <= FieldMax[f]
       /\ f \in {"first_name", "last_name"} => Len(payload[f][1]) >= 1

\* ResidentCreate: every field, the two names required.
ResidentCreate(payload) ==
  /\ payload.first_name # None
  /\ payload.last_name # None
  /\ FieldsValid(payload)

\* ResidentUpdate: any of the fields, each optional.
ResidentUpdate(payload) == FieldsValid(payload)

_to_out(r) ==
  [id |-> r.id, first_name |-> r.first_name, last_name |-> r.last_name,
   address |-> r.address, city |-> r.city, state |-> r.state, zip |-> r.zip,
   phone |-> r.phone, email |-> r.email, photo_url |-> r.photo_url,
   photo_public_id |-> r.photo_public_id, notes |-> r.notes,
   created_at |-> r.created_at, updated_at |-> r.updated_at]

\* The ids a resident row can have, and the ids a path can name.
ResidentIds == {1, 2}
ResidentById(rid) == {r \in residents : r.id = rid}
FreeResidentIds == {i \in ResidentIds : ResidentById(i) = {}}
\* uuid.uuid4(): an id no row has.
NewResidentId == CHOOSE i \in FreeResidentIds : \A j \in FreeResidentIds : i <= j

\* Bodies sent to POST /residents: two residents, and one with an empty
\* first name.
ResidentPayloads ==
  {[first_name |-> Some(<<"A", "l">>), last_name |-> Some(<<"S", "m", "i", "t", "h">>),
    address |-> None, city |-> Some(<<"B", "a", "t", "h">>), state |-> None,
    zip |-> None, phone |-> None, email |-> None, photo_url |-> None,
    photo_public_id |-> None, notes |-> None],
   [first_name |-> Some(<<"B", "o">>), last_name |-> Some(<<"s", "m", "a", "l", "l">>),
    address |-> None, city |-> None, state |-> None, zip |-> None,
    phone |-> None, email |-> None, photo_url |-> None,
    photo_public_id |-> None, notes |-> Some(<<"a", "_", "b">>)],
   [first_name |-> Some(<<>>), last_name |-> Some(<<"S", "m", "i", "t", "h">>),
    address |-> None, city |-> None, state |-> None, zip |-> None,
    phone |-> None, email |-> None, photo_url |-> None,
    photo_public_id |-> None, notes |-> None]}

\* Bodies sent to PUT /residents/{id}: a new city, a null last name, and an
\* empty first name.
ResidentPatches ==
  {[city |-> Some(<<"A", "l", "t", "o">>)],
   [last_name |-> None],
   [first_name |-> Some(<<>>)]}

\* The outcome of a resident handler: the status, the table, the resident.
Outcome(status, detail, table, resident) ==
  [status |-> status, detail |-> detail, table |-> table, resident |-> resident]

get_resident(rid) ==
  IF ResidentById(rid) = {}
    THEN Outcome(404, "Resident not found", residents, NullResident)
    ELSE Outcome(200, "", residents, _to_out(CHOOSE r \in ResidentById(rid) : TRUE))

create_resident(payload, t) ==
  LET resident ==
        [id |-> NewResidentId, first_name |-> payload.first_name,
         last_name |-> payload.last_name, address |-> payload.address,
         city |-> payload.city, state |-> payload.state, zip |-> payload.zip,
         phone |-> payload.phone, email |-> payload.email,
         photo_url |-> payload.photo_url,
         photo_public_id |-> payload.photo_public_id, notes |-> payload.notes,
         created_at |-> t, updated_at |-> t]
  IN Outcome(201, "", residents \cup {resident}, _to_out(resident))

\* setattr over model_dump(exclude_unset=True): the fields the body carries
\* replace the row's, the others stay.
Patched(r, payload) ==
  LET Pick(f) == IF f \in DOMAIN payload THEN payload[f] ELSE r[f] IN
  [id |-> r.id, first_name |-> Pick("first_name"), last_name |-> Pick("last_name"),
   address |-> Pick("address"), city |-> Pick("city"), state |-> Pick("state"),
   zip |-> Pick("zip"), phone |-> Pick("phone"), email |-> Pick("email"),
   photo_url |-> Pick("photo_url"), photo_public_id |-> Pick("photo_public_id"),
   notes |-> Pick("notes"), created_at |-> r.created_at, updated_at |-> r.updated_at]

\* A null written to one of the two NOT NULL name columns fails the commit.
update_resident(rid, payload, t) ==
  IF ResidentById(rid) = {} THEN
    Outcome(404, "Resident not found", residents, NullResident)
  ELSE
    LET old == CHOOSE r \in ResidentById(rid) : TRUE
        resident == [Patched(old, payload) EXCEPT !.updated_at = t]
    IN IF resident.first_name = None \/ resident.last_name = None
         THEN Outcome(500, "Internal Server Error", residents, NullResident)
         ELSE Outcome(200, "", (residents \ {old}) \cup {resident},
                      _to_out(resident))

delete_resident(rid) ==
  IF ResidentById(rid) = {}
    THEN Outcome(404, "Resident not found", residents, NullResident)
    ELSE Outcome(204, "", residents \ ResidentById(rid), NullResident)

\* The bookkeeping of a resident route: refused by its dependency `gate`, or
\* by the validation of its body, or answered by its handler with `out`.
\* (`out` is evaluated only on the last of the three.)
Serve(op, credentials, gate, valid, rid, out) ==
  IF gate.status # 200 THEN
    /\ resp' = Reply(op, gate.status, gate.detail, credentials)
    /\ body' = [NoBody EXCEPT !.rid = rid]
    /\ UNCHANGED residents
  ELSE IF ~valid THEN
    /\ resp' = Reply(op, 422, "validation error", credentials)
    /\ body' = [NoBody EXCEPT !.rid = rid]
    /\ UNCHANGED residents
  ELSE
    /\ resp' = Reply(op, out.status, out.detail, credentials)
    /\ body' = [NoBody EXCEPT !.rid = rid, !.resident = out.resident]
    /\ residents' = out.table

GetResident(credentials, rid) ==
  /\ Serve("residents_get", credentials, get_current_user(credentials, now),
           TRUE, rid, get_resident(rid))
  /\ UNCHANGED <<users, refresh_tokens, now, advances, issued, accepted,
                 reaccepted, removed, sess, regs>>

CreateResident(credentials, payload) ==
  /\ LET gate == require_admin(credentials, now) IN
       /\ (gate.status = 200 /\ ResidentCreate(payload)) => FreeResidentIds # {}
       /\ Serve("residents_create", credentials, gate, ResidentCreate(payload),
                0, create_resident(payload, now))
  /\ UNCHANGED <<users, refresh_tokens, now, advances, issued, accepted,
                 reaccepted, removed, sess, regs>>

UpdateResident(credentials, rid, payload) ==
  /\ Serve("residents_update", credentials, require_admin(credentials, now),
           ResidentUpdate(payload), rid, update_resident(rid, payload, now))
  /\ UNCHANGED <<users, refresh_tokens, now, advances, issued, accepted,
                 reaccepted, removed, sess, regs>>

DeleteResident(credentials, rid) ==
  /\ Serve("residents_delete", credentials, require_admin(credentials, now),
           TRUE, rid, delete_resident(rid))
  /\ UNCHANGED <<users, refresh_tokens, now, advances, issued, accepted,
                 reaccepted, removed, sess, regs>>

\* ------------------------------------------------------- the resident list
\* lower(): the three capitals of the alphabet fold to their small letters.
Lower(c) == CASE c = "A" -> "a" [] c = "B" -> "b" [] c = "S" -> "s" [] OTHER -> c

RECURSIVE lower(_)
lower(text) ==
  IF text = <<>> THEN <<>> ELSE <<Lower(Head(text))>> \o lower(Tail(text))

\* str.strip(): leading and trailing blanks removed.
RECURSIVE lstrip(_)
lstrip(text) ==
  IF text # <<>> /\ Head(text) = " " THEN lstrip(Tail(text)) ELSE text

RECURSIVE rstrip(_)
rstrip(text) ==
  IF text # <<>> /\ text[Len(text)] = " "
    THEN rstrip(SubSeq(text, 1, Len(text) - 1)) ELSE text

strip(text) == rstrip(lstrip(text))

\* text LIKE pattern: in the pattern "%" stands for any run of characters and
\* "_" for any one character; every other character stands for itself.
RECURSIVE Like(_, _)
Like(pattern, text) ==
  IF pattern = <<>> THEN text = <<>>
  ELSE IF Head(pattern) = "%" THEN
    \/ Like(Tail(pattern), text)
    \/ text # <<>> /\ Like(pattern, Tail(text))
  ELSE
    /\ text # <<>>
    /\ Head(pattern) = "_" \/ Head(pattern) = Head(text)
    /\ Like(Tail(pattern), Tail(text))

\* column.ilike(pattern): LIKE without regard to case; never true of a null.
ilike(column, pattern) ==
  column # None /\ Like(lower(pattern), lower(column[1]))

\* The columns list_residents searches.
SearchedColumns ==
  {"first_name", "last_name", "address", "city", "state", "zip", "phone", "email"}

\* The WHERE clause of list_residents: none for a missing, empty or blank q,
\* else the OR of ilike over the searched columns.
Filter(r, q) ==
  (q # None /\ strip(q[1]) # <<>>)
  => \E f \in SearchedColumns : ilike(r[f], <<"%">> \o strip(q[1]) \o <<"%">>)

\* The place of a character in the alphabet.
Rank(c) == CHOOSE i \in 1..Len(Alphabet) : Alphabet[i] = c

RECURSIVE TextLess(_, _)
TextLess(a, b) ==
  IF b = <<>> THEN FALSE
  ELSE IF a = <<>> THEN TRUE
  ELSE IF Head(a) = Head(b) THEN TextLess(Tail(a), Tail(b))
  ELSE Rank(Head(a)) < Rank(Head(b))

\* x sorts before y in ascending order of the column; a null sorts as larger
\* than every value.
KeyLess(x, y, sort_by) ==
  IF sort_by \in {"created_at", "updated_at"}
    THEN x < y
    ELSE x # None /\ (y = None \/ TextLess(x[1], y[1]))

\* ORDER BY the column alone: every arrangement of the rows that respects
\* the order of the column; rows equal in the column come in any order.
Orderings(rows, sort_by, sort_dir) ==
  {s \in [1..Cardinality(rows) -> rows] :
     /\ \A i, j \in DOMAIN s : i # j => s[i] # s[j]
     /\ \A i, j \in DOMAIN s :
          i < j => IF sort_dir = "asc"
                     THEN ~KeyLess(s[j][sort_by], s[i][sort_by], sort_by)
                     ELSE ~KeyLess(s[i][sort_by], s[j][sort_by], sort_by)}

\* OFFSET offset LIMIT limit
Slice(s, offset, limit) ==
  SubSeq(s, offset + 1, IF offset + limit < Len(s) THEN offset + limit ELSE Len(s))

\* The Query constraints on the parameters of list_residents.
ListQuery(page, page_size, sort_by, sort_dir) ==
  /\ page >= 1
  /\ page_size >= 1
  /\ page_size <= 100
  /\ sort_by \in {"last_name", "first_name", "created_at", "updated_at", "city"}
  /\ sort_dir \in {"asc", "desc"}

\* The responses list_residents can give: the count of the filtered rows,
\* and the page cut from them in one of the orders the database may return.
list_residents(q, page, page_size, sort_by, sort_dir) ==
  LET base == {r \in residents : Filter(r, q)} IN
  {[items |-> [i \in DOMAIN Slice(s, (page - 1) * page_size, page_size) |->
                 _to_out(Slice(s, (page - 1) * page_size, page_size)[i])],
    total |-> Cardinality(base)] : s \in Orderings(base, sort_by, sort_dir)}

ListResidents(credentials, q, page, page_size, sort_by, sort_dir) ==
  /\ LET current == get_current_user(credentials, now) IN
       IF current.status # 200 THEN
         /\ resp' = Reply("residents_list", current.status, current.detail,
                          credentials)
         /\ body' = NoBody
       ELSE IF ~ListQuery(page, page_size, sort_by, sort_dir) THEN
         /\ resp' = Reply("residents_list", 422, "validation error", credentials)
         /\ body' = NoBody
       ELSE
         \E out \in list_residents(q, page, page_size, sort_by, sort_dir) :
           /\ resp' = Reply("residents_list", 200, "", credentials)
           /\ body' = [NoBody EXCEPT !.q = q, !.page = page,
                                     !.page_size = page_size,
                                     !.sort_by = sort_by, !.sort_dir = sort_dir,
                                     !.items = out.items, !.total = out.total]
  /\ UNCHANGED <<users, refresh_tokens, now, advances, issued, accepted,
                 reaccepted, removed, sess, residents, regs>>

\* ---------------------------------------------------------------- uploads
\* POST /uploads/cloudinary/sign: the route declares no dependency, and its
\* handler always raises 501.
cloudinary_upload_stub ==
  [status |-> 501,
   detail |-> "Cloudinary upload integration is not implemented yet."]

CloudinarySign(credentials) ==
  /\ resp' = Reply("uploads_cloudinary_stub", cloudinary_upload_stub.status,
                   cloudinary_upload_stub.detail, credentials)
  /\ body' = NoBody
  /\ UNCHANGED <<users, refresh_tokens, now, advances, issued, accepted,
                 reaccepted, removed, sess, residents, regs>>

\* ------------------------------------------------- refresh, interleaved
\* Two workers serve Refresh requests, each in its own session: the row
\* lookup is one step, the rest of the handler up to its commit another, and
\* the other worker or the clock may step in between.
RefreshBegin(p, token) ==
  /\ sess[p].pc = "idle"
  /\ LET rows == RowsByToken(token) IN
       IF rows = {} THEN
         /\ resp' = Response("refresh", 401, "Invalid refresh token", NullToken,
                             NullToken, NullUser, "", "", token)
         /\ sess' = [sess EXCEPT ![p] = [@ EXCEPT !.pc = "done", !.token = token,
                                                  !.status = 401]]
       ELSE IF Cardinality(rows) > 1 THEN
         /\ resp' = Response("refresh", 500, "Internal Server Error", NullToken,
                             NullToken, NullUser, "", "", token)
         /\ sess' = [sess EXCEPT ![p] = [@ EXCEPT !.pc = "done", !.token = token,
                                                  !.status = 500]]
       ELSE
         /\ resp' = NoResponse
         /\ sess' = [sess EXCEPT ![p] =
                       [pc |-> "found", token |-> token,
                        rt |-> CHOOSE r \in rows : TRUE,
                        raced |-> \E q \in Procs \ {p} :
                                    sess[q].pc = "found" /\ sess[q].token = token,
                        status |-> 0]]
  /\ UNCHANGED <<users, refresh_tokens, now, advances, issued, accepted,
                 reaccepted, removed>>
  /\ body' = NoBody
  /\ UNCHANGED <<residents, regs>>

RefreshCommit(p) ==
  /\ sess[p].pc = "found"
  /\ LET out == refresh_found(refresh_tokens, sess[p].rt, sess[p].token, now) IN
       /\ Settle("refresh", sess[p].token, out)
       /\ sess' = [sess EXCEPT ![p] = [@ EXCEPT !.pc = "done", !.status = out.status]]
  /\ UNCHANGED <<users, now, advances>>
  /\ body' = NoBody
  /\ UNCHANGED <<residents, regs>>

\* ------------------------------------------------ register, interleaved
\* INSERT INTO users without the unique index on email.
InsertUser_NoUnique(store, user) == [ok |-> TRUE, store |-> store \cup {user}]

\* db.add(user); db.commit(): email is unique=True, so the INSERT of a row
\* whose email another row has raises IntegrityError and nothing is written.
InsertUser(store, user) ==
  IF \E u \in store : u.email = user.email
    THEN [ok |-> FALSE, store |-> store]
    ELSE [ok |-> TRUE, store |-> store \cup {user}]

\* Two workers serve Register requests, each in its own session: validation,
\* the password check and the lookup by email are one step, the insert and
\* its commit another, and the other worker may step in between.
RegisterBegin(p, email, password) ==
  /\ regs[p].pc = "idle"
  /\ LET Done(status, detail) ==
           /\ resp' = Response("register", status, detail, NullToken, NullToken,
                               NullUser, email, password, NullToken)
           /\ regs' = [regs EXCEPT ![p] = [pc |-> "done", email |-> email,
                                           password |-> password, raced |-> FALSE,
                                           status |-> status]]
     IN IF ~RegisterRequest(password) THEN Done(422, "validation error")
        ELSE IF Len(password) < 8 THEN
          Done(400, "Password must be at least 8 characters")
        ELSE IF UserByEmail(email) # {} THEN Done(409, "Email already registered")
        ELSE
          /\ resp' = NoResponse
          /\ regs' = [regs EXCEPT ![p] =
                        [pc |-> "looked", email |-> email, password |-> password,
                         raced |-> \E q \in Procs \ {p} :
                                     regs[q].pc = "looked" /\ regs[q].email = email,
                         status |-> 0]]
  /\ body' = NoBody
  /\ UNCHANGED <<users, refresh_tokens, now, advances, issued, accepted,
                 reaccepted, removed, sess, residents>>

RegisterCommit(p) ==
  /\ regs[p].pc = "looked"
  /\ LET user == [id |-> NewUserId, email |-> regs[p].email,
                  password_hash |-> hash_password(regs[p].password),
                  role |-> "user"]
         ins == InsertUser(users, user)
     IN /\ users' = ins.store
        /\ resp' = IF ins.ok
                     THEN Response("register", 201, "", NullToken, NullToken,
                                   _to_user_public(user), regs[p].email,
                                   regs[p].password, NullToken)
                     ELSE Response("register", 500, "Internal Server Error",
                                   NullToken, NullToken, NullUser, regs[p].email,
                                   regs[p].password, NullToken)
        /\ regs' = [regs EXCEPT ![p] = [@ EXCEPT !.pc = "done",
                                          !.status = IF ins.ok THEN 201 ELSE 500]]
  /\ body' = NoBody
  /\ UNCHANGED <<refresh_tokens, now, advances, issued, accepted, reaccepted,
                 removed, sess, residents>>

\* ------------------------------------------------------------ the system
\* Requests served one at a time.
Next ==
  \/ \E d \in Jumps : Tick(d)
  \/ \E e \in RegisterEmails, p \in RegisterPasswords : Register(e, p)
  \/ \E e \in Emails, p \in LoginPasswords : Login(e, p)
  \/ \E t \in ClientTokens : Refresh(t)
  \/ \E t \in ClientTokens \cup {NullToken} : Logout(t)
  \/ \E t \in ClientTokens \cup {NullToken} : Authenticate(t)

Spec == Init /\ [][Next]_vars

\* Two Refresh requests in flight among registrations, logins and clock steps.
NextRace ==
  \/ \E d \in Jumps : Tick(d)
  \/ \E e \in RegisterEmails, p \in RegisterPasswords : Register(e, p)
  \/ \E e \in Emails, p \in LoginPasswords : Login(e, p)
  \/ \E p \in Procs, t \in ClientTokens : RefreshBegin(p, t)
  \/ \E p \in Procs : RefreshCommit(p)

SpecRace == Init /\ [][NextRace]_vars

\* The resident directory beside registration and login.  The API has no way
\* to make an admin: the users table starts with the one admin row an
\* operator has written to it.
AdminEmail == "admin@x.com"
AdminPassword == "adminpass1"
AdminRow ==
  [id |-> 1, email |-> AdminEmail, password_hash |-> hash_password(AdminPassword),
   role |-> "admin"]

InitResidents ==
  /\ users = {AdminRow}
  /\ refresh_tokens = {}
  /\ now = 0
  /\ advances = 0
  /\ resp = NoResponse
  /\ issued = {}
  /\ accepted = {}
  /\ reaccepted = {}
  /\ removed = {}
  /\ sess = [p \in Procs |-> [pc |-> "idle", token |-> NullToken, rt |-> NullRow,
                              raced |-> FALSE, status |-> 0]]
  /\ residents = {}
  /\ body = NoBody
  /\ regs = [p \in Procs |-> NoRegistration]

\* What a request can carry in its Authorization header.
Credentials == ClientTokens \cup {NullToken}

NextResidents ==
  \/ \E e \in RegisterEmails, p \in RegisterPasswords : Register(e, p)
  \/ \E e \in RegisterEmails, p \in LoginPasswords : Login(e, p)
  \/ Login(AdminEmail, AdminPassword)
  \/ \E c \in Credentials, rid \in ResidentIds : GetResident(c, rid)
  \/ \E c \in Credentials, payload \in ResidentPayloads : CreateResident(c, payload)
  \/ \E c \in Credentials, rid \in ResidentIds, payload \in ResidentPatches :
       UpdateResident(c, rid, payload)
  \/ \E c \in Credentials, rid \in ResidentIds : DeleteResident(c, rid)
  \/ \E c \in Credentials : ListResidents(c, None, 1, 20, "last_name", "asc")
  \/ \E c \in Credentials : CloudinarySign(c)

SpecResidents == InitResidents /\ [][NextResidents]_vars

\* Every operation that writes to a table, from the empty tables: no admin
\* row exists at the start.
NextWrites ==
  \/ \E e \in RegisterEmails, p \in RegisterPasswords : Register(e, p)
  \/ \E e \in Emails, p \in LoginPasswords : Login(e, p)
  \/ \E t \in ClientTokens : Refresh(t)
  \/ \E t \in Credentials : Logout(t)
  \/ \E c \in Credentials, payload \in ResidentPayloads : CreateResident(c, payload)
  \/ \E c \in Credentials, rid \in ResidentIds, payload \in ResidentPatches :
       UpdateResident(c, rid, payload)
  \/ \E c \in Credentials, rid \in ResidentIds : DeleteResident(c, rid)

SpecWrites == Init /\ [][NextWrites]_vars

\* The list route over the tables an admin can have made: any of three rows
\* written in the first two ticks, two of them equal in every text column.
ListRows ==
  {[id |-> 1, first_name |-> Some(<<"A", "l">>),
    last_name |-> Some(<<"S", "m", "i", "t", "h">>), address |-> None,
    city |-> Some(<<"B", "a", "t", "h">>), state |-> None, zip |-> None,
    phone |-> None, email |-> None, photo_url |-> None,
    photo_public_id |-> None, notes |-> None, created_at |-> 0, updated_at |-> 1],
   [id |-> 2, first_name |-> Some(<<"B", "o">>),
    last_name |-> Some(<<"s", "m", "a", "l", "l">>), address |-> None,
    city |-> None, state |-> None, zip |-> None, phone |-> None, email |-> None,
    photo_url |-> None, photo_public_id |-> None,
    notes |-> Some(<<"a", "_", "b">>), created_at |-> 0, updated_at |-> 0],
   [id |-> 3, first_name |-> Some(<<"A", "l">>),
    last_name |-> Some(<<"S", "m", "i", "t", "h">>), address |-> None,
    city |-> Some(<<"B", "a", "t", "h">>), state |-> None, zip |-> None,
    phone |-> None, email |-> None, photo_url |-> None,
    photo_public_id |-> None, notes |-> None, created_at |-> 1, updated_at |-> 1]}

InitList ==
  /\ users = {}
  /\ refresh_tokens = {}
  /\ now = 1
  /\ advances = 1
  /\ resp = NoResponse
  /\ issued = {}
  /\ accepted = {}
  /\ reaccepted = {}
  /\ removed = {}
  /\ sess = [p \in Procs |-> [pc |-> "idle", token |-> NullToken, rt |-> NullRow,
                              raced |-> FALSE, status |-> 0]]
  /\ residents \in SUBSET ListRows
  /\ body = NoBody
  /\ regs = [p \in Procs |-> NoRegistration]

\* Values of q: missing, empty, blank, parts of a name in either case and
\* between blanks, and the two characters LIKE gives a meaning to.
ListQueries ==
  {None, Some(<<>>), Some(<<" ">>), Some(<<"s", "m">>), Some(<<"S", "M", "I">>),
   Some(<<" ", "a", "l", "l", " ">>), Some(<<"_">>), Some(<<"%">>)}

\* The query strings sent: every combination of a q with pages, page sizes,
\* sort columns and directions the route accepts, and four it refuses.
ListRequests ==
  (ListQueries \X {1, 2} \X {1, 100}
     \X {"last_name", "first_name", "created_at", "updated_at", "city"}
     \X {"asc", "desc"})
  \cup {<<None, 0, 20, "last_name", "asc">>, <<None, 1, 0, "last_name", "asc">>,
        <<None, 1, 101, "last_name", "asc">>, <<None, 1, 20, "notes", "asc">>}

NextList ==
  \/ \E e \in RegisterEmails, p \in RegisterPasswords : Register(e, p)
  \/ \E e \in RegisterEmails, p \in LoginPasswords : Login(e, p)
  \/ \E c \in {NullToken} \cup {t \in issued : t.type = "access"},
        r \in ListRequests :
       ListResidents(c, r[1], r[2], r[3], r[4], r[5])

SpecList == InitList /\ [][NextList]_vars

\* Two Register requests in flight, and logins.
NextRegister ==
  \/ \E p \in Procs, e \in Emails, w \in RegisterPasswords : RegisterBegin(p, e, w)
  \/ \E p \in Procs : RegisterCommit(p)
  \/ \E e \in Emails, w \in LoginPasswords : Login(e, w)

SpecRegister == Init /\ [][NextRegister]_vars

\* ================================================================ claims
StoredTokens == {r.token : r \in refresh_tokens}
ValidCredentials(email, password) ==
  \E u \in users : u.email = email /\ verify_password(password, u.password_hash)

\* C1: once Refresh(t) has succeeded, every later Refresh(t) with that same
\* string fails, and the string a successful Refresh returns is accepted at
\* most once: no refresh token string is ever accepted by Refresh twice.
C1_NoTokenAcceptedTwice == reaccepted = {}

\* C2: of two Refresh requests carrying the same token string that run
\* concurrently (the second looked its row up before the first committed), at
\* most one returns a new token pair.
C2_AtMostOneRotation ==
  \A p \in Procs, q \in Procs :
    (/\ p # q
     /\ sess[p].pc = "done" /\ sess[q].pc = "done"
     /\ sess[p].token = sess[q].token
     /\ sess[p].raced \/ sess[q].raced)
    => ~(sess[p].status = 200 /\ sess[q].status = 200)

\* What C3 requires of the token of a Refresh call, in the state the call is
\* made in: its row is in the store and not expired, it verifies, it is a
\* refresh token, and its subject is an existing user.
C3_Acceptable(token) ==
  /\ \E r \in refresh_tokens : r.token = token /\ r.expires_at > now
  /\ decode_token(token, now)
  /\ token.type = "refresh"
  /\ \E u \in users : u.id = token.sub

\* C3: Refresh(t) returns a new token pair only if t is in the store with an
\* unexpired row, verifies, has type "refresh" and names an existing user; in
\* every other case it fails with 401.
C3_RefreshOnlyIfAcceptable ==
  [][resp'.op = "refresh" =>
       /\ resp'.status = 200 => C3_Acceptable(resp'.token)
       /\ ~C3_Acceptable(resp'.token) =>
            /\ resp'.status = 401
            /\ resp'.access_token = NullToken /\ resp'.refresh_token = NullToken]_vars

\* C3 witness: a Refresh rotated a stored token into a new one.
C3_Witness ==
  /\ resp.op = "refresh" /\ resp.status = 200
  /\ resp.refresh_token # resp.token
  /\ resp.refresh_token \in StoredTokens /\ resp.token \notin StoredTokens

\* C4: a token string whose row was removed from the store (by rotation, by
\* Logout or by expiry reaping) is never in the store again.
C4_RemovedNeverReturns == \A r \in refresh_tokens : r.token \notin removed

\* C5: every Login with the email and password of a registered user succeeds:
\* it returns an access token and a refresh token and inserts exactly one new
\* row, the refresh token's, into the store.
C5_LoginAlwaysSucceeds ==
  [][(resp'.op = "login" /\ ValidCredentials(resp'.email, resp'.password)) =>
       /\ resp'.status = 200
       /\ resp'.access_token.type = "access"
       /\ resp'.refresh_token.type = "refresh"
       /\ refresh_tokens \subseteq refresh_tokens'
       /\ Cardinality(refresh_tokens') = Cardinality(refresh_tokens) + 1
       /\ \E r \in refresh_tokens' \ refresh_tokens : r.token = resp'.refresh_token]_vars

\* C6: Logout always answers 204; a token string in the store loses its row
\* (and only that row), an unknown or omitted one leaves the users and the
\* refresh tokens as they were; and a second Logout(t) changes nothing more.
C6_LogoutIdempotent ==
  [][resp'.op = "logout" =>
       /\ resp'.status = 204
       /\ users' = users
       /\ IF resp'.token \in StoredTokens
            THEN refresh_tokens' = {r \in refresh_tokens : r.token # resp'.token}
            ELSE refresh_tokens' = refresh_tokens
       /\ logout(refresh_tokens', resp'.token) = refresh_tokens']_vars

\* C6 witness: a Logout deleted the row of its token while another stayed.
C6_Witness ==
  /\ resp.op = "logout" /\ resp.status = 204
  /\ resp.token \in removed /\ resp.token \notin accepted
  /\ resp.token \notin StoredTokens
  /\ refresh_tokens # {}

\* C7: Login with an unknown email and Login with a known email and a wrong
\* password get the identical 401 response, issue no token and insert no row.
C7_LoginFailuresIdentical ==
  /\ \A e1 \in Emails, e2 \in Emails, p1 \in LoginPasswords, p2 \in LoginPasswords :
       (/\ UserByEmail(e1) = {}
        /\ UserByEmail(e2) # {}
        /\ ~ValidCredentials(e2, p2))
       => LET unknown == login(e1, p1, now)
              wrong == login(e2, p2, now)
          IN /\ unknown = wrong
             /\ unknown.status = 401
             /\ unknown.access = NullToken /\ unknown.refresh = NullToken
             /\ unknown.store = refresh_tokens
  /\ (resp.op = "login" /\ ~ValidCredentials(resp.email, resp.password)) =>
       /\ resp.status = 401 /\ resp.detail = "Invalid email or password"
       /\ resp.access_token = NullToken /\ resp.refresh_token = NullToken

\* C7 witness: a Login with a registered email and a wrong password was
\* refused while the other email is unknown.
C7_Witness ==
  /\ resp.op = "login" /\ resp.status = 401
  /\ UserByEmail(resp.email) # {}
  /\ \E e \in Emails : UserByEmail(e) = {}

\* What C8 says of a Register step.
C8_Outcome ==
  IF UserByEmail(resp'.email) # {}
    THEN /\ resp'.status = 409
         /\ users' = users
    ELSE /\ resp'.status = 201
         /\ users \subseteq users'
         /\ Cardinality(users') = Cardinality(users) + 1
         /\ \E u \in users' \ users :
              /\ u.email = resp'.email /\ u.role = "user"
              /\ resp'.user = _to_user_public(u)

\* C8 as stated: Register with an email some user row has fails with 409 and
\* leaves the users unchanged; otherwise it inserts exactly one row with role
\* user and answers 201 with its public view.
C8_RegisterAsStated == [][resp'.op = "register" => C8_Outcome]_vars

\* C8 amended: the same, for a password of 8 to 128 characters.
C8_RegisterValidPassword ==
  [][(resp'.op = "register" /\ RegisterRequest(resp'.password)) => C8_Outcome]_vars

\* C8 witness: a Register with a valid password met an existing email.
C8_Witness ==
  /\ resp.op = "register" /\ resp.status = 409
  /\ RegisterRequest(resp.password)
  /\ UserByEmail(resp.email) # {}

\* C9: a register request whose password is shorter than 8 characters is
\* answered 400 and creates no user.
C9_ShortPassword400 ==
  [][(resp'.op = "register" /\ Len(resp'.password) < 8) =>
       /\ resp'.status = 400
       /\ users' = users]_vars

\* C10: an access token issued in second t0 with TTL T is accepted by the
\* Bearer check in second t0 + T - 1 and rejected with 401 in second
\* t0 + T + 1 (its user exists: users are never deleted).
C10_AccessTokenBoundary ==
  (/\ resp.op = "bearer"
   /\ resp.token \in issued
   /\ resp.token.type = "access") =>
    /\ Sec(now) = resp.token.iat + AccessTTL - 1 =>
         /\ resp.status = 200
         /\ resp.user.id = resp.token.sub
    /\ Sec(now) = resp.token.iat + AccessTTL + 1 => resp.status = 401

\* C10 witness: the Bearer check refused an issued access token one second
\* past its TTL.
C10_Witness ==
  /\ resp.op = "bearer" /\ resp.status = 401
  /\ resp.token \in issued /\ resp.token.type = "access"
  /\ Sec(now) = resp.token.iat + AccessTTL + 1
  /\ \E u \in users : u.id = resp.token.sub

\* C14: when Refresh(t) finds the row of t and the row's expires_at is at or
\* before the current time, the call is refused with 401, the row is deleted,
\* so that t is not in the store afterwards, and no token is issued.
C14_ExpiredRowReaped ==
  [][(/\ resp'.op = "refresh"
      /\ Cardinality(RowsByToken(resp'.token)) = 1
      /\ \A r \in RowsByToken(resp'.token) : r.expires_at <= now)
     => (/\ resp'.status = 401
         /\ resp'.access_token = NullToken
         /\ resp'.refresh_token = NullToken
         /\ issued' = issued
         /\ \A r \in refresh_tokens' : r.token # resp'.token
         /\ refresh_tokens' \subseteq refresh_tokens)]_vars

\* C14 witness: a Refresh met the expired row of an issued token and
\* deleted it.
C14_Witness ==
  /\ resp.op = "refresh"
  /\ resp.status = 401
  /\ resp.detail = "Refresh token expired"
  /\ resp.token \in issued
  /\ resp.token \in removed
  /\ resp.token \notin StoredTokens

\* C15: a correctly signed, unexpired refresh token sent as Bearer credential
\* to a protected route is refused with 401, and a correctly signed,
\* unexpired access token sent to Refresh is refused with 401 and returns no
\* token: neither kind of token works in place of the other.
C15_TokenTypeEnforced ==
  /\ (resp.op = "bearer" /\ resp.token.type = "refresh"
      /\ decode_token(resp.token, now))
     => resp.status = 401
  /\ (resp.op = "refresh" /\ resp.token.type = "access"
      /\ decode_token(resp.token, now))
     => (/\ resp.status = 401
         /\ resp.access_token = NullToken
         /\ resp.refresh_token = NullToken)

\* C15 witness: the Bearer check refused an issued, unexpired refresh token
\* whose row is in the store, for its type.
C15_Witness ==
  /\ resp.op = "bearer"
  /\ resp.token.type = "refresh"
  /\ resp.token \in StoredTokens
  /\ decode_token(resp.token, now)
  /\ resp.status = 401
  /\ resp.detail = "Invalid token type"

\* The routes that write to the residents table.
ResidentWrites == {"residents_create", "residents_update", "residents_delete"}
\* The caller of the last request, as get_current_user resolves its
\* credentials.
Caller(response) == get_current_user(response.token, now)

\* C11: the residents table changes only in a create, update or delete call
\* made by a caller whose role is admin; such a call made by an authenticated
\* caller who is not admin is answered 403 and leaves every resident row as
\* it was.
C11_OnlyAdminWrites ==
  [][/\ residents' # residents
        => /\ resp'.op \in ResidentWrites
           /\ Caller(resp').status = 200
           /\ Caller(resp').user.role = "admin"
     /\ (/\ resp'.op \in ResidentWrites
         /\ Caller(resp').status = 200
         /\ Caller(resp').user.role # "admin")
        => (resp'.status = 403 /\ residents' = residents)]_vars

\* C11 witness: DELETE /residents/{id} by a logged-in user who is not admin,
\* on the id of a row, was answered 403 and the row is there.
C11_Witness ==
  /\ resp.op = "residents_delete"
  /\ resp.status = 403
  /\ Caller(resp).status = 200
  /\ Caller(resp).user.role = "user"
  /\ ResidentById(body.rid) # {}

\* The routes spec section 6 puts behind the Bearer check: every route but
\* /auth/* and GET /health.
ProtectedRoutes ==
  {"residents_list", "residents_get", "residents_create", "residents_update",
   "residents_delete", "uploads_cloudinary_stub"}

\* C12: a request to a /residents route or to POST /uploads/cloudinary/sign
\* with a missing or invalid Authorization header is answered 401.
C12_BearerRequired ==
  (resp.op \in ProtectedRoutes /\ Caller(resp).status # 200)
  => resp.status = 401

\* C16: no operation changes the role of a user row or makes a row whose
\* role is admin, and while no user row is admin the residents table stays
\* as it is.
C16_NoAdminNoWrites ==
  [][/\ users \subseteq users'
     /\ \A u \in users' \ users : u.role = "user"
     /\ (\A u \in users : u.role # "admin") => residents' = residents]_vars

\* C16 witness: a registered and logged-in user asked to create a resident,
\* was refused for the role, and the table is empty.
C16_Witness ==
  /\ resp.op = "residents_create"
  /\ resp.status = 403
  /\ Caller(resp).status = 200
  /\ users # {}
  /\ \A u \in users : u.role = "user"
  /\ residents = {}

\* part occurs in text, without regard to case.
Contains(text, part) ==
  \E i \in 1..Len(text) + 1, j \in 0..Len(text) :
    SubSeq(lower(text), i, j) = lower(part)

\* What C13 says q selects: every row when q is missing, empty or blank,
\* else the rows with a searched column that contains q.
MatchesQuery(r, q) ==
  (q # None /\ strip(q[1]) # <<>>)
  => \E f \in SearchedColumns : r[f] # None /\ Contains(r[f][1], strip(q[1]))

\* C13: for every residents table, q, page >= 1 and page_size in 1..100, the
\* list returns as total the number of rows q matches (a case-insensitive
\* substring match on any searched column; all rows for an empty q), whatever
\* the page and page size, and as items the rows from offset
\* (page - 1) * page_size, page_size of them at most, of the matches sorted
\* by the sort column.
C13_ListAsStated ==
  (resp.op = "residents_list" /\ resp.status = 200)
  => LET matches == {r \in residents : MatchesQuery(r, body.q)} IN
       /\ body.total = Cardinality(matches)
       /\ \E s \in Orderings(matches, body.sort_by, body.sort_dir) :
            body.items = Slice(s, (body.page - 1) * body.page_size, body.page_size)

\* The Register requests for email that were answered 201.
Registered(email) ==
  {p \in Procs : regs[p].pc = "done" /\ regs[p].email = email /\ regs[p].status = 201}

\* C17: however concurrent Register requests interleave, no two user rows
\* have the same email, at most one request for an email is answered 201,
\* and every other finished request is answered with an error and leaves no
\* row: an email has as many rows as requests answered 201.
C17_OneRowPerEmail ==
  /\ \A u1 \in users, u2 \in users : u1.email = u2.email => u1 = u2
  /\ \A e \in Emails :
       /\ Cardinality(Registered(e)) <= 1
       /\ Cardinality(UserByEmail(e)) = Cardinality(Registered(e))
  /\ \A p \in Procs :
       (regs[p].pc = "done" /\ regs[p].status # 201) => regs[p].status >= 400

\* C17 witness: two requests for one email both looked the email up before
\* either committed; one was answered 201 and the other an error.
C17_Witness ==
  \E p \in Procs, q \in Procs :
    /\ p # q
    /\ regs[p].pc = "done" /\ regs[q].pc = "done"
    /\ regs[p].email = regs[q].email
    /\ regs[q].raced
    /\ regs[p].status = 201
    /\ regs[q].status = 500
    /\ Cardinality(UserByEmail(regs[p].email)) = 1

====
